---- MODULE Spec2Model ----
(***************************************************************************)
(* Model of static/js/single_comp.js: a load-time script that writes one   *)
(* fixed toolbar fragment into two mount points and constructs two         *)
(* placeholder charts, plus the two utilities downloadChart and            *)
(* expandChart that the page calls afterwards.                             *)
(*                                                                         *)
(* The page (which of the four fixed elements exist) is chosen in Init:    *)
(* the script does not create them.  Markup is a sequence of tokens, the   *)
(* innerHTML setter parses it into a node list (pre-order, with depth);    *)
(* whitespace-only text between elements is left out of the tokens.        *)
(***************************************************************************)
EXTENDS Integers, Sequences, FiniteSets, TLC

VARIABLES document, charts, pc, loadFault, log, downloads, fsRequests,
          fullscreenElement, controls

vars == <<document, charts, pc, loadFault, log, downloads, fsRequests,
          fullscreenElement, controls>>

\* Bound on the number of utility calls (downloadChart / expandChart).
MaxCalls == 2

null == "null"

----------------------------------------------------------------------------
\* Markup tokens

Open(tag, attrs) == [kind |-> "open", tag |-> tag, attrs |-> attrs, text |-> ""]
Close(tag) == [kind |-> "close", tag |-> tag, attrs |-> {}, text |-> ""]
Text(s) == [kind |-> "text", tag |-> "#text", attrs |-> {}, text |-> s]

Label(s) == <<Open("label", {}), Text(s), Close("label")>>
Option(s) == <<Open("option", {}), Text(s), Close("option")>>
Button(s) ==
    <<Open("button", {<<"class", "btn btn-outline-info">>}), Text(s), Close("button")>>

\* Variant: the first two options in the other order.
selectHTML_Swapped ==
    Label("Select Parameter")
    \o <<Open("select", {<<"class", "form-select">>})>>
    \o Option("Profit")
    \o Option("Revenue")
    \o Option("Employee Count")
    \o <<Close("select")>>

selectHTML ==
    Label("Select Parameter")
    \o <<Open("select", {<<"class", "form-select">>})>>
    \o Option("Revenue")
    \o Option("Profit")
    \o Option("Employee Count")
    \o <<Close("select")>>

preferenceHTML ==
    Label("Preference")
    \o <<Open("div", {<<"class", "btn-group">>, <<"role", "group">>})>>
    \o Button("Prefer Higher Value")
    \o Button("Prefer Lower Value")
    \o <<Close("div")>>

rangeHTML ==
    Label("Min Value")
    \o <<Open("input", {<<"type", "number">>, <<"class", "form-control">>,
                        <<"placeholder", "e.g. 10">>})>>
    \o Label("Max Value")
    \o <<Open("input", {<<"type", "number">>, <<"class", "form-control">>,
                        <<"placeholder", "e.g. 1000">>})>>

\* Variant: the range is declared on the max-value input instead.
countHTML_RangeMisplaced ==
    <<Open("input", {<<"type", "number">>, <<"class", "form-control">>,
                     <<"min", "1">>, <<"max", "25">>,
                     <<"placeholder", "e.g. 1000">>})>>
    \o Label("Number of Companies")
    \o <<Open("input", {<<"type", "number">>, <<"class", "form-control">>,
                        <<"placeholder", "Max 25">>})>>

countHTML ==
    Label("Number of Companies")
    \o <<Open("input", {<<"type", "number">>, <<"class", "form-control">>,
                        <<"min", "1">>, <<"max", "25">>,
                        <<"placeholder", "Max 25">>})>>

toolbarHTML == selectHTML \o preferenceHTML \o rangeHTML \o countHTML

\* Elements that take no content and no end tag.
VoidTags == {"input"}

Node(tok, depth) ==
    [tag |-> tok.tag, attrs |-> tok.attrs, text |-> tok.text, depth |-> depth]

RECURSIVE ParseFrom(_, _, _, _)
ParseFrom(toks, i, depth, acc) ==
    IF i > Len(toks) THEN acc
    ELSE LET tok == toks[i] IN
         CASE tok.kind = "open" /\ tok.tag \in VoidTags ->
                  ParseFrom(toks, i + 1, depth, Append(acc, Node(tok, depth)))
           [] tok.kind = "open" /\ tok.tag \notin VoidTags ->
                  ParseFrom(toks, i + 1, depth + 1, Append(acc, Node(tok, depth)))
           [] tok.kind = "text" ->
                  ParseFrom(toks, i + 1, depth, Append(acc, Node(tok, depth)))
           [] OTHER ->
                  ParseFrom(toks, i + 1, IF depth > 0 THEN depth - 1 ELSE 0, acc)

\* The innerHTML setter: the children the markup parses to.
ParseFragment(toks) == ParseFrom(toks, 1, 0, <<>>)

----------------------------------------------------------------------------
\* Queries on a node list

HasAttr(n, name) == \E p \in n.attrs : p[1] = name
Attr(n, name) ==
    IF HasAttr(n, name) THEN (CHOOSE p \in n.attrs : p[1] = name)[2] ELSE null

\* Numeric value of an attribute string, as the number input reads min/max.
ToNumber(s) == CASE s = "1" -> 1 [] s = "25" -> 25 [] OTHER -> -1

Indices(nodes) == [k \in 1..Len(nodes) |-> k]
ByTag(nodes, tag) == SelectSeq(Indices(nodes), LAMBDA k : nodes[k].tag = tag)

\* First index after the subtree rooted at i.
SubtreeEnd(nodes, i) ==
    IF \E j \in (i + 1)..Len(nodes) : nodes[j].depth <= nodes[i].depth
    THEN CHOOSE j \in (i + 1)..Len(nodes) :
             /\ nodes[j].depth <= nodes[i].depth
             /\ \A k \in (i + 1)..(j - 1) : nodes[k].depth > nodes[i].depth
    ELSE Len(nodes) + 1

Children(nodes, i) ==
    SelectSeq(Indices(nodes),
              LAMBDA k : /\ k > i
                         /\ k < SubtreeEnd(nodes, i)
                         /\ nodes[k].depth = nodes[i].depth + 1)

TextContent(nodes, i) ==
    LET c == SelectSeq(Children(nodes, i), LAMBDA k : nodes[k].tag = "#text")
    IN IF c = <<>> THEN "" ELSE nodes[c[1]].text

\* The option texts of the select at index i, in document order.
OptionsOf(nodes, i) ==
    LET opts == SelectSeq(Children(nodes, i), LAMBDA k : nodes[k].tag = "option")
    IN [j \in 1..Len(opts) |-> TextContent(nodes, opts[j])]

NumberInputs(nodes) ==
    SelectSeq(ByTag(nodes, "input"), LAMBDA k : Attr(nodes[k], "type") = "number")

\* Text of the nearest label that precedes node k at the same depth.
LabelOf(nodes, k) ==
    LET ls == {j \in 1..(k - 1) : nodes[j].tag = "label" /\ nodes[j].depth = nodes[k].depth}
    IN IF ls = {} THEN ""
       ELSE TextContent(nodes, CHOOSE j \in ls : \A m \in ls : m <= j)

----------------------------------------------------------------------------
\* The page and the charting library

MountIds == {"toolbar-top", "toolbar-sidebar"}
CanvasIds == {"scatterPlot", "barChart"}
PageIds == MountIds \cup CanvasIds

\* Identifiers the page passes to the utilities; "nosuch" is never in the page.
CallIds == {"scatterPlot", "barChart", "toolbar-top", "nosuch"}

TagOf(id) == IF id \in CanvasIds THEN "canvas" ELSE "div"

getElementById(id) == IF id \in DOMAIN document THEN id ELSE null

isCanvas(el) == el # null /\ document[el].tagName = "canvas"

\* Variant: x and y of the last point exchanged.
scatterPoints_Transposed ==
    <<[x |-> 10, y |-> 20], [x |-> 15, y |-> 25], [x |-> 30, y |-> 20]>>

scatterPoints ==
    <<[x |-> 10, y |-> 20], [x |-> 15, y |-> 25], [x |-> 20, y |-> 30]>>

scatterConfig ==
    [type |-> "scatter",
     data |-> [datasets |-> <<[label |-> "Companies",
                               data |-> scatterPoints,
                               backgroundColor |-> "#00ffff"]>>],
     options |-> [responsive |-> TRUE,
                  plugins |-> [legend |-> [display |-> FALSE]]]]

barLabels == <<"Company A", "Company B", "Company C">>

\* Variant: the last two values in the other order.
barData_Reordered == <<75, 64, 88>>

barData == <<75, 88, 64>>

barConfig ==
    [type |-> "bar",
     data |-> [labels |-> barLabels,
               datasets |-> <<[label |-> "Parameter",
                               data |-> barData,
                               backgroundColor |-> "#00ffff"]>>],
     options |-> [responsive |-> TRUE]]

\* new Chart(ctx, config): an instance bound to the canvas of the context.
NewChart(canvas, config) == [canvas |-> canvas, config |-> config]

ChartsOn(id) == SelectSeq(charts, LAMBDA c : c.canvas = id)

----------------------------------------------------------------------------
\* Initial state: any page made of a subset of the four fixed elements.

Init ==
    /\ \E S \in SUBSET PageIds :
           document = [id \in S |-> [tagName |-> TagOf(id), innerHTML |-> <<>>]]
    /\ charts = <<>>
    /\ pc = "top"
    /\ loadFault = "none"
    /\ log = <<>>
    /\ downloads = <<>>
    /\ fsRequests = <<>>
    /\ fullscreenElement = null
    /\ controls = [m \in MountIds |-> -1]

----------------------------------------------------------------------------
\* Load-time script, one statement per step

\* document.getElementById(id).innerHTML = toolbarHTML
RenderToolbar(id, here, next) ==
    /\ pc = here
    /\ IF getElementById(id) # null
       THEN /\ document' = [document EXCEPT ![id].innerHTML = ParseFragment(toolbarHTML)]
            /\ controls' = [controls EXCEPT ![id] = 0]
            /\ pc' = next
            /\ UNCHANGED loadFault
       ELSE /\ pc' = "fault"
            /\ loadFault' = here
            /\ UNCHANGED <<document, controls>>
    /\ UNCHANGED <<charts, log, downloads, fsRequests, fullscreenElement>>

RenderTop == RenderToolbar("toolbar-top", "top", "sidebar")

\* Variant: the second statement writes the first mount again.
RenderSidebar_WrongMount == RenderToolbar("toolbar-top", "sidebar", "scatter")

RenderSidebar == RenderToolbar("toolbar-sidebar", "sidebar", "scatter")

\* const ctx = document.getElementById(id).getContext('2d'); new Chart(ctx, config)
ConstructChart(id, config, here, next) ==
    /\ pc = here
    /\ IF isCanvas(getElementById(id))
       THEN /\ charts' = Append(charts, NewChart(id, config))
            /\ pc' = next
            /\ UNCHANGED loadFault
       ELSE /\ pc' = "fault"
            /\ loadFault' = here
            /\ UNCHANGED charts
    /\ UNCHANGED <<document, controls, log, downloads, fsRequests, fullscreenElement>>

\* Variant: a missing canvas is skipped and the script goes on.
ScatterChart_Continue ==
    /\ pc = "scatter"
    /\ charts' = IF isCanvas(getElementById("scatterPlot"))
                 THEN Append(charts, NewChart("scatterPlot", scatterConfig))
                 ELSE charts
    /\ pc' = "bar"
    /\ UNCHANGED <<document, controls, loadFault, log, downloads, fsRequests,
                   fullscreenElement>>

ScatterChart == ConstructChart("scatterPlot", scatterConfig, "scatter", "bar")

BarChart == ConstructChart("barChart", barConfig, "bar", "done")

Loaded == pc \in {"done", "fault"}

----------------------------------------------------------------------------
\* Utilities, called by the page once the script has run (or faulted: the
\* two function declarations are hoisted, so they exist either way).

Entry(op, id, result, at) == [op |-> op, id |-> id, result |-> result, at |-> at]

\* document.createElement('a'): a link that is not in the document tree.
createElement(tag) == [tagName |-> tag, download |-> "", href |-> ""]

\* The bitmap of a canvas: what the last chart constructed on it drew.
Bitmap(canvas) ==
    IF ChartsOn(canvas) = <<>> THEN "blank"
    ELSE ChartsOn(canvas)[Len(ChartsOn(canvas))].config.type

\* canvas.toDataURL(): default encoding.
toDataURL(canvas) == "data:image/png;base64," \o Bitmap(canvas)

\* link.click(): a link with an href and a download name starts a download
\* under that name; a link without href does nothing.
Click(link, dls) ==
    IF link.href # ""
    THEN Append(dls, [filename |-> link.download, href |-> link.href])
    ELSE dls

\* Variant: the link is clicked before its href is set.
DownloadChart_ClickFirst(id) ==
    /\ Loaded
    /\ Len(log) < MaxCalls
    /\ LET canvas == getElementById(id)
           link0 == createElement("a")
           link1 == [link0 EXCEPT !.download = id \o ".png"]
       IN IF isCanvas(canvas)
          THEN /\ downloads' = Click(link1, downloads)
               /\ log' = Append(log, Entry("downloadChart", id, "ok", ""))
          ELSE /\ downloads' = downloads
               /\ log' = Append(log, Entry("downloadChart", id, "TypeError", "toDataURL"))
    /\ UNCHANGED <<document, charts, pc, loadFault, fsRequests, fullscreenElement,
                   controls>>

\* Variant: an element without a bitmap conversion yields an empty image
\* instead of a fault.
DownloadChart_Lenient(id) ==
    /\ Loaded
    /\ Len(log) < MaxCalls
    /\ LET canvas == getElementById(id)
           link0 == createElement("a")
           link1 == [link0 EXCEPT !.download = id \o ".png"]
           link2 == [link1 EXCEPT !.href = IF isCanvas(canvas) THEN toDataURL(canvas)
                                           ELSE "data:,"]
       IN /\ downloads' = Click(link2, downloads)
          /\ log' = Append(log, Entry("downloadChart", id, "ok", ""))
    /\ UNCHANGED <<document, charts, pc, loadFault, fsRequests, fullscreenElement,
                   controls>>

\* Variant: the link is appended to the document before it is clicked.
DownloadChart_AppendLink(id) ==
    /\ Loaded
    /\ Len(log) < MaxCalls
    /\ LET canvas == getElementById(id)
           link0 == createElement("a")
           link1 == [link0 EXCEPT !.download = id \o ".png"]
       IN IF isCanvas(canvas)
          THEN LET link2 == [link1 EXCEPT !.href = toDataURL(canvas)]
               IN /\ document' = [e \in DOMAIN document \cup {"link"} |->
                                     IF e \in DOMAIN document THEN document[e]
                                     ELSE [tagName |-> link2.tagName, innerHTML |-> <<>>]]
                  /\ downloads' = Click(link2, downloads)
                  /\ log' = Append(log, Entry("downloadChart", id, "ok", ""))
          ELSE /\ UNCHANGED <<document, downloads>>
               /\ log' = Append(log, Entry("downloadChart", id, "TypeError", "toDataURL"))
    /\ UNCHANGED <<charts, pc, loadFault, fsRequests, fullscreenElement, controls>>

DownloadChart(id) ==
    /\ Loaded
    /\ Len(log) < MaxCalls
    /\ LET canvas == getElementById(id)
           link0 == createElement("a")
           link1 == [link0 EXCEPT !.download = id \o ".png"]
       IN IF isCanvas(canvas)
          THEN LET link2 == [link1 EXCEPT !.href = toDataURL(canvas)]
               IN /\ downloads' = Click(link2, downloads)
                  /\ log' = Append(log, Entry("downloadChart", id, "ok", ""))
          ELSE /\ downloads' = downloads
               /\ log' = Append(log, Entry("downloadChart", id, "TypeError", "toDataURL"))
    /\ UNCHANGED <<document, charts, pc, loadFault, fsRequests, fullscreenElement,
                   controls>>

ExpandChart(id) ==
    /\ Loaded
    /\ Len(log) < MaxCalls
    /\ LET canvas == getElementById(id)
       IN IF canvas # null
          THEN /\ fsRequests' = Append(fsRequests, canvas)
               \* the browser grants or rejects the request; a rejection is
               \* not observed by the code
               /\ \E granted \in BOOLEAN :
                      fullscreenElement' = IF granted THEN canvas ELSE fullscreenElement
               /\ log' = Append(log, Entry("expandChart", id, "ok", ""))
          ELSE /\ UNCHANGED <<fsRequests, fullscreenElement>>
               /\ log' = Append(log, Entry("expandChart", id, "TypeError", "requestFullscreen"))
    /\ UNCHANGED <<document, charts, pc, loadFault, downloads, controls>>

\* The user picks option k of the dropdown of a rendered toolbar.  No handler
\* is wired to any toolbar control: only the control's own value changes.
SelectParameter(m, k) ==
    /\ Loaded
    /\ controls[m] # -1
    /\ LET nodes == document[m].innerHTML
           sel == ByTag(nodes, "select")
       IN /\ sel # <<>>
          /\ k < Len(OptionsOf(nodes, sel[1]))
    /\ k # controls[m]
    /\ controls' = [controls EXCEPT ![m] = k]
    /\ UNCHANGED <<document, charts, pc, loadFault, log, downloads, fsRequests,
                   fullscreenElement>>

Next ==
    \/ RenderTop
    \/ RenderSidebar
    \/ ScatterChart
    \/ BarChart
    \/ \E id \in CallIds : DownloadChart(id)
    \/ \E id \in CallIds : ExpandChart(id)
    \/ \E m \in MountIds, k \in 0..2 : SelectParameter(m, k)

Spec == Init /\ [][Next]_vars

----------------------------------------------------------------------------
\* Properties

Rendered(m) == m \in DOMAIN document /\ document[m].innerHTML # <<>>

Calls(op, id) == SelectSeq(log, LAMBDA e : e.op = op /\ e.id = id)

\* The script got past the construction of the chart of that step.
ScatterConstructed == pc \in {"bar", "done"} \/ (pc = "fault" /\ loadFault = "bar")
BarConstructed == pc = "done"

\* C1: once the script is past both render statements on a page that has
\* both mount points, the two mount points hold the same content, the parsed
\* toolbar fragment, whatever utility calls follow.
C1_MountsIdentical ==
    (pc \notin {"top", "sidebar"} /\ MountIds \subseteq DOMAIN document) =>
        /\ document["toolbar-top"].innerHTML = document["toolbar-sidebar"].innerHTML
        /\ document["toolbar-top"].innerHTML = ParseFragment(toolbarHTML)
        /\ document["toolbar-top"].innerHTML # <<>>

C1_Witness ==
    /\ Loaded
    /\ MountIds \subseteq DOMAIN document
    /\ document["toolbar-top"].innerHTML = document["toolbar-sidebar"].innerHTML
    /\ Rendered("toolbar-top")
    /\ \E i, j \in 1..Len(log) : log[i].op = "downloadChart" /\ log[j].op = "expandChart"

\* C2: a rendered mount point holds exactly one dropdown, whose options are
\* Revenue, Profit, Employee Count in that order.
C2_OneDropdownThreeOptions ==
    \A m \in MountIds :
        Rendered(m) =>
            LET nodes == document[m].innerHTML
                sel == ByTag(nodes, "select")
            IN /\ Len(sel) = 1
               /\ OptionsOf(nodes, sel[1]) = <<"Revenue", "Profit", "Employee Count">>
               /\ Len(ByTag(nodes, "option")) = 3

C2_Witness == Rendered("toolbar-top") /\ Rendered("toolbar-sidebar") /\ pc = "done"

\* C3: in a rendered mount point there are three numeric inputs; the one
\* labelled Number of Companies declares min 1 and max 25, the ones labelled
\* Min Value and Max Value declare neither.
C3_CountRange ==
    \A m \in MountIds :
        Rendered(m) =>
            LET nodes == document[m].innerHTML
                inputs == NumberInputs(nodes)
            IN /\ Len(inputs) = 3
               /\ <<LabelOf(nodes, inputs[1]), LabelOf(nodes, inputs[2]),
                     LabelOf(nodes, inputs[3])>>
                      = <<"Min Value", "Max Value", "Number of Companies">>
               /\ ToNumber(Attr(nodes[inputs[3]], "min")) = 1
               /\ ToNumber(Attr(nodes[inputs[3]], "max")) = 25
               /\ \A j \in 1..2 : /\ ~HasAttr(nodes[inputs[j]], "min")
                                   /\ ~HasAttr(nodes[inputs[j]], "max")

C3_Witness == Rendered("toolbar-sidebar") /\ Loaded /\ controls["toolbar-sidebar"] = 2

\* C4: once the scatter chart is constructed there is one chart on the
\* scatterPlot canvas: type scatter, a single dataset labelled Companies with
\* the points (10,20), (15,25), (20,30) in order, legend hidden, responsive.
C4_ScatterChart ==
    ScatterConstructed =>
        /\ Len(ChartsOn("scatterPlot")) = 1
        /\ LET c == ChartsOn("scatterPlot")[1].config
           IN /\ c.type = "scatter"
              /\ Len(c.data.datasets) = 1
              /\ c.data.datasets[1].label = "Companies"
              /\ Len(c.data.datasets[1].data) = 3
              /\ [i \in 1..3 |-> <<c.data.datasets[1].data[i].x,
                                    c.data.datasets[1].data[i].y>>]
                     = << <<10, 20>>, <<15, 25>>, <<20, 30>> >>
              /\ c.options.plugins.legend.display = FALSE
              /\ c.options.responsive = TRUE

C4_Witness == ScatterConstructed /\ Len(ChartsOn("scatterPlot")) = 1 /\ Len(log) > 0

\* C5: once the bar chart is constructed there is one chart on the barChart
\* canvas: type bar, labels Company A, Company B, Company C and values 75,
\* 88, 64, both of length three, the i-th label with the i-th value.
C5_BarChart ==
    BarConstructed =>
        /\ Len(ChartsOn("barChart")) = 1
        /\ LET c == ChartsOn("barChart")[1].config
           IN /\ c.type = "bar"
              /\ Len(c.data.labels) = 3
              /\ Len(c.data.datasets) = 1
              /\ Len(c.data.datasets[1].data) = Len(c.data.labels)
              /\ [i \in 1..3 |-> <<c.data.labels[i], c.data.datasets[1].data[i]>>]
                     = << <<"Company A", 75>>, <<"Company B", 88>>, <<"Company C", 64>> >>

C5_Witness == BarConstructed /\ Len(ChartsOn("barChart")) = 1 /\ Len(log) > 0

\* C6: for an identifier that resolves to a canvas, the n calls of
\* downloadChart made so far succeeded and produced n download actions, each
\* named id.png and carrying the canvas image; nothing else downloads.
C6_DownloadPerCall ==
    /\ \A id \in CallIds :
           isCanvas(getElementById(id)) =>
               LET dl == SelectSeq(downloads, LAMBDA d : d.filename = id \o ".png")
               IN /\ Len(dl) = Len(Calls("downloadChart", id))
                  /\ \A i \in 1..Len(dl) : dl[i].href = toDataURL(id)
                  /\ \A i \in 1..Len(Calls("downloadChart", id)) :
                         Calls("downloadChart", id)[i].result = "ok"
    /\ Len(downloads) = Len(SelectSeq(log, LAMBDA e : e.op = "downloadChart"
                                                    /\ isCanvas(getElementById(e.id))))
    /\ \A i \in 1..Len(downloads) :
           downloads[i].href # "" /\ downloads[i].filename # ".png"

C6_Witness ==
    /\ Len(Calls("downloadChart", "scatterPlot")) = 2
    /\ downloads = <<[filename |-> "scatterPlot.png", href |-> "data:image/png;base64,scatter"],
                     [filename |-> "scatterPlot.png", href |-> "data:image/png;base64,scatter"]>>

\* C7: every expandChart call with an identifier that is not in the document
\* reports ElementNotFound, and no fullscreen request names such an identifier.
C7_ElementNotFound ==
    /\ \A i \in 1..Len(log) :
           (log[i].op = "expandChart" /\ log[i].id \notin DOMAIN document) =>
               log[i].result = "ElementNotFound"
    /\ \A i \in 1..Len(fsRequests) : fsRequests[i] \in DOMAIN document

\* C8: a downloadChart call whose identifier does not resolve to a canvas
\* faults at the bitmap conversion, and the step leaves the downloads, the
\* document (tree and mount contents) and the charts as they were.
C8_FailedDownload ==
    [][(/\ Len(log') = Len(log) + 1
        /\ log'[Len(log')].op = "downloadChart"
        /\ ~isCanvas(getElementById(log'[Len(log')].id)))
       => (/\ log'[Len(log')].result = "TypeError"
           /\ log'[Len(log')].at = "toDataURL"
           /\ downloads' = downloads
           /\ document' = document
           /\ charts' = charts)]_vars

C8_Witness ==
    /\ Len(log) = 2
    /\ log[1] = Entry("downloadChart", "nosuch", "TypeError", "toDataURL")
    /\ log[2] = Entry("downloadChart", "toolbar-top", "TypeError", "toDataURL")
    /\ Rendered("toolbar-top")
    /\ downloads = <<>>

\* The four load steps in order: the element each needs, and its effect.
StepElement == <<"toolbar-top", "toolbar-sidebar", "scatterPlot", "barChart">>
StepName == <<"top", "sidebar", "scatter", "bar">>
Present(k) == StepElement[k] \in DOMAIN document
Effect(k) ==
    IF k <= 2 THEN Rendered(StepElement[k]) ELSE ChartsOn(StepElement[k]) # <<>>

\* C9: at any time the steps that have taken effect form a prefix of top,
\* sidebar, scatter, bar, all of whose elements are present; when the script
\* has ended, a step has taken effect exactly when its element and those of
\* all earlier steps are present, and the script faulted at the first step
\* whose element is absent.
C9_LoadPrefix ==
    /\ \A k \in 1..4 : Effect(k) => \A j \in 1..k : Present(j) /\ Effect(j)
    /\ Loaded => \A k \in 1..4 : Effect(k) <=> \A j \in 1..k : Present(j)
    /\ pc = "done" => \A k \in 1..4 : Present(k)
    /\ pc = "fault" =>
           \E k \in 1..4 : /\ loadFault = StepName[k]
                            /\ ~Present(k)
                            /\ \A j \in 1..(k - 1) : Present(j)
    /\ Len(charts) <= 2

C9_Witness ==
    /\ pc = "fault"
    /\ loadFault = "scatter"
    /\ "barChart" \in DOMAIN document
    /\ charts = <<>>
    /\ Rendered("toolbar-top") /\ Rendered("toolbar-sidebar")

\* C10: after a successful load there are exactly two charts, a scatter on
\* scatterPlot and a bar on barChart; once the script has ended no step
\* changes the charts; and no link element is ever in the document.
C10_ChartsFixed ==
    /\ [](pc = "done" =>
              /\ Len(charts) = 2
              /\ charts[1].canvas = "scatterPlot" /\ charts[1].config.type = "scatter"
              /\ charts[2].canvas = "barChart" /\ charts[2].config.type = "bar")
    /\ [](/\ DOMAIN document \subseteq PageIds
          /\ \A e \in DOMAIN document : document[e].tagName # "a")
    /\ [][Loaded => charts' = charts]_vars

C10_Witness ==
    /\ pc = "done"
    /\ Len(charts) = 2
    /\ Len(downloads) = 1
    /\ Len(fsRequests) = 1
    /\ controls["toolbar-top"] = 1
====
